---- MODULE Spec2Model ----
(***************************************************************************)
(* Job lifecycle and access control of the Z-Image API:                    *)
(*   - the Durable Ledger (libs/py_core/db.py): batch and item rows,       *)
(*     written by the worker's started / succeeded / failed notifications; *)
(*   - the worker task (libs/py_core/tasks.py) on an at-least-once queue   *)
(*     (libs/py_core/celery_app.py, task_acks_late);                       *)
(*   - the identity resolvers, the access enforcer and the ownership       *)
(*     cache (apps/api/auth.py);                                           *)
(*   - the HTTP handlers (apps/api/routes/images.py, apps/api/main.py).    *)
(***************************************************************************)
EXTENDS Integers, Sequences, FiniteSets, TLC

(***************************************************************************)
(* Bounds of the model.                                                    *)
(***************************************************************************)
\* number of job ids the Execution Backend hands out
MaxTasks == 2
\* deliveries of one job by the at-least-once queue
MaxDeliveries == 2
\* batch ids a client can name in its metadata
NamedBatches == 1
\* uuid4() draws of _extract_batch_info
MaxUuid == 2
\* concurrently executing submissions
MaxReqs == 2
\* jobs submitted in the access model
MaxAccessTasks == 1
\* jobs submitted in the history model
MaxHistoryTasks == 1
\* the length of the longest history the paging model starts from
MaxHistoryLen == 45

\* GenerateImageRequest.num_inference_steps: Field(default=9, ge=1, le=50)
MaxInferenceSteps == 50

(***************************************************************************)
(* Values.                                                                 *)
(***************************************************************************)
\* SQL NULL / Python None for string-valued fields
NULL == "NULL"
\* Python None for an integer field (seed, batch_index, batch_size)
NoInt == -1

TaskIds == 1..MaxTasks
NamedBatchIds == 1..NamedBatches
BatchIds == 1..(NamedBatches + MaxUuid)

\* metadata = None
NoMeta == [is_dict |-> FALSE, batch_id |-> 0, batch_index |-> NoInt, batch_size |-> NoInt]
\* metadata = {"batch_id": b, "batch_index": i, "batch_size": s}; b = 0 and NoInt: key absent
Meta(b, i, s) == [is_dict |-> TRUE, batch_id |-> b, batch_index |-> i, batch_size |-> s]

\* the metadata maps the clients of the ledger model send
MetaInputs ==
    { NoMeta,
      Meta(0, NoInt, NoInt),
      Meta(1, 0, 0),
      Meta(1, 0, 1),
      Meta(1, 0, 2),
      Meta(1, 1, 2) }

\* seeds of the submitted jobs
SeedInputs == {NoInt, 100}

\* the structured execution errors a failing job is classified as
ErrorCodes == {"gpu_oom", "internal_error"}

VARIABLES
    \* configuration (libs/py_core/config.py, API_ALLOWED_KEYS)
    api_enable_auth, api_admin_key, api_allowed_keys,
    \* Execution Backend: per job id its arguments, Celery state and delivery
    jobs,
    \* Durable Ledger: image_generation_batches, image_generation_tasks
    batches, tasks,
    \* uuid4() values drawn so far
    uuid_count,
    \* Ownership Cache: zimage:task_owner:<id>, zimage:user_tasks:<key>, zimage:all_tasks
    task_owner, user_tasks, all_tasks,
    \* submissions in flight, and the last answer the API gave
    req, resp

vars == << api_enable_auth, api_admin_key, api_allowed_keys, jobs, batches, tasks,
           uuid_count, task_owner, user_tasks, all_tasks, req, resp >>

config_vars == << api_enable_auth, api_admin_key, api_allowed_keys >>
ledger_vars == << batches, tasks, uuid_count >>
cache_vars == << task_owner, user_tasks, all_tasks >>

(***************************************************************************)
(* Execution Backend (Celery): a job id unknown to the backend reads as    *)
(* PENDING with no result.                                                 *)
(***************************************************************************)
NoResult == [kind |-> "none", auth_key |-> NULL, code |-> NULL]

\* the counts a worker's _update_batch_counters statement has read, if it has begun
NoCounts == [taken |-> FALSE, success_count |-> 0, failed_count |-> 0]

NoJob ==
    [ state |-> "PENDING", run |-> "none", deliveries |-> 0,
      auth_key |-> NULL, seed |-> NoInt, metadata |-> NoMeta, result |-> NoResult,
      counts |-> NoCounts ]

\* generate_image_task.delay(...): the job is queued under a fresh id
Delay(js, t, key, seed, md) ==
    [js EXCEPT ![t] =
        [ state |-> "PENDING", run |-> "queued", deliveries |-> 1,
          auth_key |-> key, seed |-> seed, metadata |-> md, result |-> NoResult,
          counts |-> NoCounts ]]

Submitted == { t \in DOMAIN jobs : jobs[t].run # "none" }

\* the id the backend assigns to the next submission
NextTaskId == Cardinality(Submitted) + 1

(***************************************************************************)
(* Durable Ledger rows.                                                    *)
(***************************************************************************)
NoBatch ==
    [ exists |-> FALSE, api_client_id |-> NULL, base_seed |-> NoInt, batch_size |-> 0,
      status |-> NULL, success_count |-> 0, failed_count |-> 0, completed_at |-> FALSE,
      created_at |-> 0 ]

NoTask ==
    [ exists |-> FALSE, batch_id |-> 0, batch_index |-> 0, seed |-> NoInt,
      status |-> NULL, image_id |-> NULL, error_code |-> NULL, finished_at |-> FALSE ]

\* _get_or_create_api_client_id: "admin" for the admin key, "key_<hash8>" otherwise
ApiClientId(raw_key) ==
    IF raw_key = NULL THEN NULL
    ELSE IF api_admin_key # NULL /\ raw_key = api_admin_key THEN "admin"
    ELSE CASE raw_key = "k1" -> "key_6e0b"
           [] raw_key = "k2" -> "key_2c1f"
           [] raw_key = "k3" -> "key_9a47"
           [] OTHER -> "key_d033"

\* _extract_batch_info
UsesUuid(md) == ~(md.is_dict /\ md.batch_id # 0)
ExtractBatchId(md, fresh) == IF UsesUuid(md) THEN fresh ELSE md.batch_id
ExtractBatchIndex(md) ==
    IF md.is_dict /\ md.batch_index # NoInt THEN md.batch_index ELSE 0
ExtractBatchSize(md) ==
    IF md.is_dict /\ md.batch_size # NoInt /\ md.batch_size > 0 THEN md.batch_size ELSE 1

\* base_seed = seed - batch_index when a seed is given
BaseSeed(seed, batch_index) == IF seed = NoInt THEN NoInt ELSE seed - batch_index

\* COALESCE(a, b) on a string column and on an integer column
Coalesce(a, b) == IF a # NULL THEN a ELSE b
CoalesceInt(a, b) == IF a # NoInt THEN a ELSE b

\* image_generation_batches.created_at of a row inserted now: the upsert does not name
\* the column, the table's default stamps the insertion time, later than every row's
NextCreatedAt(bs) ==
    LET stamps == { bs[b].created_at : b \in { x \in DOMAIN bs : bs[x].exists } }
    IN  IF stamps = {} THEN 1
        ELSE 1 + (CHOOSE m \in stamps : \A x \in stamps : x <= m)

\* a batch upsert whose DO UPDATE also resets the counters
UpsertBatch_ResetCounters(bs, id, client, base_seed, batch_size) ==
    [bs EXCEPT ![id] =
        [ exists |-> TRUE, api_client_id |-> Coalesce(bs[id].api_client_id, client),
          base_seed |-> CoalesceInt(bs[id].base_seed, base_seed),
          batch_size |-> batch_size,
          status |-> IF bs[id].exists /\ bs[id].status # "pending"
                     THEN bs[id].status ELSE "running",
          success_count |-> 0, failed_count |-> 0,
          completed_at |-> bs[id].completed_at,
          created_at |-> IF bs[id].exists THEN bs[id].created_at ELSE NextCreatedAt(bs) ]]

\* a batch upsert whose DO UPDATE takes the status of the inserted row
UpsertBatch_StatusExcluded(bs, id, client, base_seed, batch_size) ==
    [bs EXCEPT ![id] =
        [ exists |-> TRUE, api_client_id |-> Coalesce(bs[id].api_client_id, client),
          base_seed |-> CoalesceInt(bs[id].base_seed, base_seed),
          batch_size |-> batch_size,
          status |-> "running",
          success_count |-> bs[id].success_count, failed_count |-> bs[id].failed_count,
          completed_at |-> bs[id].completed_at,
          created_at |-> IF bs[id].exists THEN bs[id].created_at ELSE NextCreatedAt(bs) ]]

\* a batch upsert whose DO UPDATE takes the api_client_id of the inserted row
UpsertBatch_OwnerExcluded(bs, id, client, base_seed, batch_size) ==
    [bs EXCEPT ![id] =
        [ exists |-> TRUE, api_client_id |-> client,
          base_seed |-> CoalesceInt(bs[id].base_seed, base_seed),
          batch_size |-> batch_size,
          status |-> IF bs[id].exists /\ bs[id].status # "pending"
                     THEN bs[id].status ELSE "running",
          success_count |-> bs[id].success_count, failed_count |-> bs[id].failed_count,
          completed_at |-> bs[id].completed_at,
          created_at |-> IF bs[id].exists THEN bs[id].created_at ELSE NextCreatedAt(bs) ]]

\* INSERT INTO image_generation_batches ... ON CONFLICT (id) DO UPDATE
UpsertBatch(bs, id, client, base_seed, batch_size) ==
    IF ~bs[id].exists
    THEN [bs EXCEPT ![id] =
            [ exists |-> TRUE, api_client_id |-> client, base_seed |-> base_seed,
              batch_size |-> batch_size, status |-> "running",
              success_count |-> 0, failed_count |-> 0, completed_at |-> FALSE,
              created_at |-> NextCreatedAt(bs) ]]
    ELSE [bs EXCEPT ![id] =
            [ @ EXCEPT !.api_client_id = Coalesce(@, client),
                       !.base_seed = CoalesceInt(@, base_seed),
                       !.batch_size = batch_size,
                       !.status = IF @ = "pending" THEN "running" ELSE @ ]]

\* INSERT INTO image_generation_tasks ... ON CONFLICT (task_id) DO UPDATE
UpsertTask(ts, t, batch_id, batch_index, seed) ==
    IF ~ts[t].exists
    THEN [ts EXCEPT ![t] =
            [ exists |-> TRUE, batch_id |-> batch_id, batch_index |-> batch_index,
              seed |-> seed, status |-> "running", image_id |-> NULL,
              error_code |-> NULL, finished_at |-> FALSE ]]
    ELSE [ts EXCEPT ![t] = [ @ EXCEPT !.status = "running", !.seed = seed ]]

\* COUNT(*) FILTER (WHERE status ...) over the batch's items
CountItems(ts, id, statuses) ==
    Cardinality({ t \in DOMAIN ts :
        ts[t].exists /\ ts[t].batch_id = id /\ ts[t].status \in statuses })

\* _update_batch_counters deriving 'success' from the presence of a successful item
UpdateBatchCounters_SuccessIfAny(bs, ts, id) ==
    LET s == CountItems(ts, id, {"success"})
        f == CountItems(ts, id, {"error", "cancelled"})
    IN  IF ~bs[id].exists THEN bs
        ELSE [bs EXCEPT ![id] =
                [ @ EXCEPT !.success_count = s,
                           !.failed_count = f,
                           !.status = IF s + f >= bs[id].batch_size
                                      THEN (IF s > 0 THEN "success" ELSE "partial")
                                      ELSE "running",
                           !.completed_at = IF s + f >= bs[id].batch_size
                                            THEN TRUE ELSE @ ]]

\* _update_batch_counters
UpdateBatchCounters(bs, ts, id) ==
    LET s == CountItems(ts, id, {"success"})
        f == CountItems(ts, id, {"error", "cancelled"})
    IN  IF ~bs[id].exists THEN bs
        ELSE [bs EXCEPT ![id] =
                [ @ EXCEPT !.success_count = s,
                           !.failed_count = f,
                           !.status = IF s + f >= bs[id].batch_size
                                      THEN (IF f = 0 THEN "success" ELSE "partial")
                                      ELSE "running",
                           !.completed_at = IF s + f >= bs[id].batch_size
                                            THEN TRUE ELSE @ ]]

\* record_generation_started: batch upsert, then item upsert
StartedBatches(t, key, seed, md) ==
    LET id == ExtractBatchId(md, NamedBatches + uuid_count + 1)
        idx == ExtractBatchIndex(md)
    IN  UpsertBatch(batches, id, ApiClientId(key), BaseSeed(seed, idx), ExtractBatchSize(md))

StartedTasks(t, key, seed, md) ==
    UpsertTask(tasks, t, ExtractBatchId(md, NamedBatches + uuid_count + 1),
               ExtractBatchIndex(md), seed)

record_generation_started(t, key, seed, md) ==
    /\ batches' = StartedBatches(t, key, seed, md)
    /\ tasks' = StartedTasks(t, key, seed, md)
    /\ uuid_count' = IF UsesUuid(md) THEN uuid_count + 1 ELSE uuid_count

\* UPDATE image_generation_tasks SET status = 'success', error_* = NULL, ... RETURNING batch_id
SucceededTasks(t) ==
    IF ~tasks[t].exists THEN tasks
    ELSE [tasks EXCEPT ![t] =
            [ @ EXCEPT !.status = "success", !.error_code = NULL,
                       !.image_id = "img", !.finished_at = TRUE ]]

record_generation_succeeded(t) ==
    /\ tasks' = SucceededTasks(t)
    /\ batches' = IF tasks[t].exists
                  THEN UpdateBatchCounters(batches, SucceededTasks(t), tasks[t].batch_id)
                  ELSE batches
    /\ UNCHANGED uuid_count

\* UPDATE image_generation_tasks SET status = 'error', error_* = ... RETURNING batch_id
FailedTasks(t, code) ==
    IF ~tasks[t].exists THEN tasks
    ELSE [tasks EXCEPT ![t] =
            [ @ EXCEPT !.status = "error", !.error_code = code, !.finished_at = TRUE ]]

record_generation_failed(t, code) ==
    /\ tasks' = FailedTasks(t, code)
    /\ batches' = IF tasks[t].exists
                  THEN UpdateBatchCounters(batches, FailedTasks(t, code), tasks[t].batch_id)
                  ELSE batches
    /\ UNCHANGED uuid_count

(***************************************************************************)
(* Identity Resolver (apps/api/auth.py).  A resolver either raises an      *)
(* HTTPException (code 401 or 403) or returns an AuthContext (code 200).   *)
(***************************************************************************)
\* the credential sent as an empty string: falsy like None, but not None
EMPTY == ""

\* Python truthiness of an optional string: `if raw_key`
Truthy(k) == k # NULL /\ k # EMPTY

\* is_admin = bool(admin_key) and raw_key == admin_key
IsAdminKey(raw_key) == Truthy(api_admin_key) /\ raw_key = api_admin_key

AuthContext(raw_key, admin) == [code |-> 200, key |-> raw_key, is_admin |-> admin]
HTTPException(status_code) == [code |-> status_code, key |-> NULL, is_admin |-> FALSE]

\* _resolve_auth_context: the whitelist check, then the AuthContext
resolve_auth_context(raw_key) ==
    IF /\ api_enable_auth
       /\ Truthy(raw_key)
       /\ ~IsAdminKey(raw_key)
       /\ api_allowed_keys # {}
       /\ raw_key \notin api_allowed_keys
    THEN HTTPException(403)
    ELSE AuthContext(raw_key, IsAdminKey(raw_key))

\* get_auth_context: the strict resolver
get_auth_context(raw_key) ==
    IF api_enable_auth /\ ~Truthy(raw_key)
    THEN HTTPException(401)
    ELSE resolve_auth_context(raw_key)

\* a lenient resolver that lets a missing credential through whatever the auth flag
get_auth_context_optional_anonymous(raw_key) ==
    resolve_auth_context(raw_key)

\* get_auth_context_optional: the lenient resolver
get_auth_context_optional(raw_key) ==
    IF api_enable_auth /\ ~Truthy(raw_key)
    THEN HTTPException(401)
    ELSE resolve_auth_context(raw_key)

(***************************************************************************)
(* Ownership Cache (Redis) and the access enforcer (apps/api/auth.py).     *)
(***************************************************************************)
\* USER_TASKS_MAX_ITEMS
USER_TASKS_MAX_ITEMS == 100

\* f"{USER_TASKS_KEY_PREFIX}{auth_key}": None is formatted as the text "None"
UserListKey(auth_key) == IF auth_key = NULL THEN "None" ELSE auth_key

\* the zimage:user_tasks:<key> lists
UserLists == {"None", "admin", "k1", "k2", "k3"}

\* LPUSH key value
LPush(list, x) == << x >> \o list

\* LTRIM key 0 stop
LTrim(list, stop) == SubSeq(list, 1, IF Len(list) < stop + 1 THEN Len(list) ELSE stop + 1)

\* enforce_task_access with the comparison of the stored owner left out
enforce_task_access_no_owner_check(t, ctx) ==
    IF ~api_enable_auth THEN 200
    ELSE IF ctx.is_admin THEN 200
    ELSE IF ~Truthy(ctx.key) THEN 401
    ELSE 200

\* enforce_task_access without the fallback to the result payload's auth_key
enforce_task_access_no_fallback(t, ctx) ==
    IF ~api_enable_auth THEN 200
    ELSE IF ctx.is_admin THEN 200
    ELSE IF ~Truthy(ctx.key) THEN 401
    ELSE IF task_owner[t] # NULL
         THEN (IF task_owner[t] # ctx.key THEN 403 ELSE 200)
    ELSE 200

\* enforce_task_access: 200 when the caller may access the job, else the error raised
enforce_task_access(t, ctx) ==
    IF ~api_enable_auth THEN 200
    ELSE IF ctx.is_admin THEN 200
    ELSE IF ~Truthy(ctx.key) THEN 401
    ELSE IF task_owner[t] # NULL
         THEN (IF task_owner[t] # ctx.key THEN 403 ELSE 200)
    ELSE IF /\ jobs[t].state = "SUCCESS"
            /\ Truthy(jobs[t].result.auth_key)
            /\ jobs[t].result.auth_key # ctx.key
         THEN 403
    ELSE 200

(***************************************************************************)
(* The worker task generate_image_task (libs/py_core/tasks.py), delivered  *)
(* at least once (celery_app.conf.task_acks_late = True).                  *)
(***************************************************************************)
\* the worker picks the job up: record_generation_started, then the compute step begins
WorkerStart(t) ==
    /\ jobs[t].run = "queued"
    /\ UsesUuid(jobs[t].metadata) => uuid_count < MaxUuid
    /\ record_generation_started(t, jobs[t].auth_key, jobs[t].seed, jobs[t].metadata)
    /\ jobs' = [jobs EXCEPT ![t].run = "executing"]
    /\ UNCHANGED << config_vars, cache_vars, req, resp >>

\* generate_image returned: record_generation_succeeded, the result payload is stored
WorkerSucceed(t) ==
    /\ jobs[t].run = "executing"
    /\ record_generation_succeeded(t)
    /\ jobs' = [jobs EXCEPT ![t].run = "finished",
                            ![t].state = "SUCCESS",
                            ![t].result = [ kind |-> "result",
                                            auth_key |-> jobs[t].auth_key,
                                            code |-> NULL ]]
    /\ UNCHANGED << config_vars, cache_vars, req, resp >>

\* generate_image raised: record_generation_failed, the structured error is raised
WorkerFail(t, code) ==
    /\ jobs[t].run = "executing"
    /\ record_generation_failed(t, code)
    /\ jobs' = [jobs EXCEPT ![t].run = "finished",
                            ![t].state = "FAILURE",
                            ![t].result = [ kind |-> "error", auth_key |-> NULL,
                                            code |-> code ]]
    /\ UNCHANGED << config_vars, cache_vars, req, resp >>

\* progress_callback: self.update_state(state="PROGRESS", ...)
WorkerProgress(t) ==
    /\ jobs[t].run = "executing"
    /\ jobs[t].state # "PROGRESS"
    /\ jobs' = [jobs EXCEPT ![t].state = "PROGRESS"]
    /\ UNCHANGED << config_vars, ledger_vars, cache_vars, req, resp >>

\* the message is acknowledged only after the task returns: a worker lost while
\* executing, or before the acknowledgement, has its message delivered again
Redeliver(t) ==
    /\ jobs[t].run \in {"executing", "finished"}
    /\ jobs[t].deliveries < MaxDeliveries
    /\ jobs' = [jobs EXCEPT ![t].run = "queued", ![t].deliveries = @ + 1]
    /\ UNCHANGED << config_vars, ledger_vars, cache_vars, req, resp >>

\* a client's submission reaches generate_image_task.delay with its key, seed and metadata
DelayTask(key, seed, md) ==
    /\ NextTaskId \in TaskIds
    /\ api_enable_auth => key # NULL
    /\ jobs' = Delay(jobs, NextTaskId, key, seed, md)
    /\ UNCHANGED << config_vars, ledger_vars, cache_vars, req, resp >>

(***************************************************************************)
(* Initial states.                                                         *)
(***************************************************************************)
NoReq == [pc |-> "idle", key |-> NULL, task |-> 0, app |-> "routes"]
\* no answer yet.  An answer records the request (op, key, task), the HTTP status (code),
\* the body (status; has_result, has_error, has_progress: the non-null fields of a
\* TaskStatusResponse, error_code and error_hint among them; limit, offset: the query
\* parameters of a history request; page, listed: the ids of the history page it
\* returned, in order and as a set) and what the request met
\* (is_admin, owner_seen, owner_expired, state_seen)
NoResp == [op |-> "none", key |-> NULL, task |-> 0, code |-> 0, status |-> NULL,
           is_admin |-> FALSE, owner_seen |-> NULL, owner_expired |-> FALSE,
           state_seen |-> NULL, has_result |-> FALSE, has_error |-> FALSE,
           has_progress |-> FALSE, listed |-> {}, limit |-> 0, offset |-> 0,
           page |-> << >>, error_code |-> NULL, error_hint |-> NULL]

InitBackend ==
    /\ jobs = [t \in TaskIds |-> NoJob]
    /\ batches = [b \in BatchIds |-> NoBatch]
    /\ tasks = [t \in TaskIds |-> NoTask]
    /\ uuid_count = 0

InitApiIdle ==
    /\ req = [r \in 1..MaxReqs |-> NoReq]
    /\ resp = NoResp

\* the keys of the ledger model's clients
LedgerKeys == {NULL, "k1"}

Init ==
    /\ api_enable_auth = FALSE
    /\ api_admin_key = "admin"
    /\ api_allowed_keys = {}
    /\ InitBackend
    /\ task_owner = [t \in TaskIds |-> NULL]
    /\ user_tasks = [k \in UserLists |-> << >>]
    /\ all_tasks = << >>
    /\ InitApiIdle

Next ==
    \/ \E key \in LedgerKeys, seed \in SeedInputs, md \in MetaInputs : DelayTask(key, seed, md)
    \/ \E t \in TaskIds : WorkerStart(t)
    \/ \E t \in TaskIds : WorkerSucceed(t)
    \/ \E t \in TaskIds, code \in ErrorCodes : WorkerFail(t, code)
    \/ \E t \in TaskIds : Redeliver(t)

Spec == Init /\ [][Next]_vars

(***************************************************************************)
(* Claims about the Durable Ledger, checked under Spec.                    *)
(***************************************************************************)
TerminalBatch == {"success", "partial"}
TerminalItem == {"success", "error", "cancelled"}

\* C1: in every reachable ledger state every batch row satisfies
\* success_count + failed_count <= batch_size.
C1_CountersWithinBatchSize ==
    \A b \in BatchIds :
        batches[b].exists =>
            batches[b].success_count + batches[b].failed_count <= batches[b].batch_size

\* C2: a batch's stored status is terminal (success or partial) if and only if its
\* stored success_count + failed_count equals its stored batch_size.
C2_TerminalIffCountersComplete ==
    \A b \in BatchIds :
        batches[b].exists =>
            ( batches[b].status \in TerminalBatch
              <=> batches[b].success_count + batches[b].failed_count = batches[b].batch_size )

\* C3: once a job row has reached a terminal status (success, error or cancelled), no
\* later notification for the same job id changes its status.
C3_TerminalItemStatusIsFinal ==
    [][ \A t \in TaskIds :
            (tasks[t].exists /\ tasks[t].status \in TerminalItem)
                => tasks'[t].status = tasks[t].status ]_vars

\* the step is a 'started' notification of job t: the worker picks the job up
StartedStep(t) == jobs[t].run = "queued" /\ jobs'[t].run = "executing"

\* job t was started again after an earlier start, and its batch has counted items
StartedTwice(t) ==
    /\ jobs[t].run = "executing"
    /\ jobs[t].deliveries > 1
    /\ tasks[t].exists
    /\ batches[tasks[t].batch_id].exists

\* C14: a 'job started' notification for a job id that was started before leaves the
\* success_count and failed_count of every batch unchanged, whether the job and its
\* batch are running or already finished.
C14_DuplicateStartKeepsCounters ==
    [][ \A t \in TaskIds :
          (StartedStep(t) /\ tasks[t].exists) =>
              \A b \in BatchIds :
                  batches[b].exists =>
                      /\ batches'[b].success_count = batches[b].success_count
                      /\ batches'[b].failed_count = batches[b].failed_count ]_vars

\* a finished job has been started again and its batch still shows counted items
C14_Witness ==
    \E t \in TaskIds :
        /\ StartedTwice(t)
        /\ batches[tasks[t].batch_id].success_count
              + batches[tasks[t].batch_id].failed_count > 0

\* C15: a 'started' notification for any item (first, late or duplicate) leaves the
\* status of a batch that is running, success or partial unchanged; only a pending
\* batch is moved, and only to running.
C15_StartKeepsBatchStatus ==
    [][ \A t \in TaskIds :
          StartedStep(t) =>
              \A b \in BatchIds :
                  (batches[b].exists /\ batches'[b].status # batches[b].status)
                      => (batches[b].status = "pending" /\ batches'[b].status = "running") ]_vars

\* a job of a batch that is already terminal has been started again, and the batch is
\* still terminal
C15_Witness ==
    \E t \in TaskIds :
        /\ StartedTwice(t)
        /\ batches[tasks[t].batch_id].status \in TerminalBatch

\* C16: a terminal batch has status success exactly when its failed_count is 0 and
\* partial otherwise; a batch that is not terminal is running (or pending).
C16_TerminalStatusFollowsFailedCount ==
    \A b \in BatchIds :
        batches[b].exists =>
            IF batches[b].status \in TerminalBatch
            THEN (batches[b].status = "success" <=> batches[b].failed_count = 0)
            ELSE batches[b].status \in {"running", "pending"}

\* a batch has ended partial with failed items
C16_Witness ==
    \E b \in BatchIds :
        /\ batches[b].exists
        /\ batches[b].status = "partial"
        /\ batches[b].failed_count > 0
        /\ batches[b].success_count > 0

\* C21: in every reachable ledger state a running job row has neither result fields
\* (image id, artifact paths) nor error fields populated, a success row has no error
\* fields and an error row has no result fields, also after redelivered started
\* notifications and a finish notification that follows an earlier one.
C21_ItemFieldsMatchStatus ==
    \A t \in TaskIds :
        tasks[t].exists =>
            /\ tasks[t].status = "running"
                  => (tasks[t].image_id = NULL /\ tasks[t].error_code = NULL)
            /\ tasks[t].status = "success" => tasks[t].error_code = NULL
            /\ tasks[t].status = "error" => tasks[t].image_id = NULL

(***************************************************************************)
(* SpecConcurrent: the items of one batch finish on concurrent workers.    *)
(* Every helper of db.py opens its own autocommit connection, so the item  *)
(* UPDATE and the counters statement of one notification are two           *)
(* transactions.  PostgreSQL runs them READ COMMITTED: the counts CTE of    *)
(* _update_batch_counters reads the snapshot taken when the statement      *)
(* starts, and its UPDATE is applied to the latest committed version of    *)
(* the batch row, which a statement committed in between may have written. *)
(***************************************************************************)
\* the UPDATE of _update_batch_counters with the counts its CTE has read
WriteCounters(bs, id, s, f) ==
    IF ~bs[id].exists THEN bs
    ELSE [bs EXCEPT ![id] =
            [ @ EXCEPT !.success_count = s,
                       !.failed_count = f,
                       !.status = IF s + f >= bs[id].batch_size
                                  THEN (IF f = 0 THEN "success" ELSE "partial")
                                  ELSE "running",
                       !.completed_at = IF s + f >= bs[id].batch_size
                                        THEN TRUE ELSE @ ]]

\* record_generation_succeeded, first statement: UPDATE ... SET status = 'success'
ItemSucceed(t) ==
    /\ jobs[t].run = "executing"
    /\ tasks' = SucceededTasks(t)
    /\ jobs' = [jobs EXCEPT ![t].run = "item_success"]
    /\ UNCHANGED << config_vars, batches, uuid_count, cache_vars, req, resp >>

\* record_generation_failed, first statement: UPDATE ... SET status = 'error'
ItemFail(t, code) ==
    /\ jobs[t].run = "executing"
    /\ tasks' = FailedTasks(t, code)
    /\ jobs' = [jobs EXCEPT ![t].run = "item_error",
                            ![t].result = [ kind |-> "error", auth_key |-> NULL,
                                            code |-> code ]]
    /\ UNCHANGED << config_vars, batches, uuid_count, cache_vars, req, resp >>

\* _update_batch_counters begins: the counts CTE reads the statement's snapshot
CountersRead(t) ==
    /\ jobs[t].run \in {"item_success", "item_error"}
    /\ ~jobs[t].counts.taken
    /\ jobs' = [jobs EXCEPT ![t].counts =
                    [ taken |-> TRUE,
                      success_count |-> CountItems(tasks, tasks[t].batch_id, {"success"}),
                      failed_count |->
                          CountItems(tasks, tasks[t].batch_id, {"error", "cancelled"}) ]]
    /\ UNCHANGED << config_vars, ledger_vars, cache_vars, req, resp >>

\* _update_batch_counters ends: the batch row is updated and the task returns or raises
CountersWrite(t) ==
    /\ jobs[t].run \in {"item_success", "item_error"}
    /\ jobs[t].counts.taken
    /\ batches' = WriteCounters(batches, tasks[t].batch_id,
                                jobs[t].counts.success_count, jobs[t].counts.failed_count)
    /\ jobs' = [jobs EXCEPT
                  ![t].run = "finished",
                  ![t].state = IF jobs[t].run = "item_success" THEN "SUCCESS" ELSE "FAILURE",
                  ![t].result = IF jobs[t].run = "item_success"
                                THEN [ kind |-> "result", auth_key |-> jobs[t].auth_key,
                                       code |-> NULL ]
                                ELSE @ ]
    /\ UNCHANGED << config_vars, tasks, uuid_count, cache_vars, req, resp >>

\* the metadata of the items of one batch of two
BatchItemMeta == { Meta(1, 0, 2), Meta(1, 1, 2) }

NextConcurrent ==
    \/ \E key \in LedgerKeys, md \in BatchItemMeta : DelayTask(key, NoInt, md)
    \/ \E t \in TaskIds : WorkerStart(t)
    \/ \E t \in TaskIds : ItemSucceed(t)
    \/ \E t \in TaskIds : ItemFail(t, "gpu_oom")
    \/ \E t \in TaskIds : CountersRead(t)
    \/ \E t \in TaskIds : CountersWrite(t)

SpecConcurrent == Init /\ [][NextConcurrent]_vars

\* every submitted job has been worked off
AllWorkersDone ==
    /\ Submitted # {}
    /\ \A t \in Submitted : jobs[t].run = "finished"

\* C11: when the items of a batch finish concurrently, no update is lost: once all
\* workers are done, the batch's success_count and failed_count equal the numbers of its
\* items with status success and error / cancelled, and its status is terminal if
\* batch_size items are terminal.
C11_NoLostCounterUpdate ==
    AllWorkersDone =>
        \A b \in BatchIds :
            batches[b].exists =>
                /\ batches[b].success_count = CountItems(tasks, b, {"success"})
                /\ batches[b].failed_count = CountItems(tasks, b, {"error", "cancelled"})
                /\ CountItems(tasks, b, TerminalItem) >= batches[b].batch_size
                      => batches[b].status \in TerminalBatch

(***************************************************************************)
(* The resolvers as functions of the configuration and the credential:     *)
(* SpecResolver draws the configuration, then applies a resolver to every  *)
(* credential.                                                             *)
(***************************************************************************)
\* the credentials a request can carry: none, empty, the admin secret, listed and unlisted keys
Credentials == {NULL, EMPTY, "admin", "k1", "k2", "k3"}

\* the configured API_ALLOWED_KEYS sets
AllowLists == { {}, {"k1", "k2"}, {"k1"} }

ResolverAnswer(mode, raw_key, ctx) ==
    [ NoResp EXCEPT !.op = mode, !.key = raw_key, !.code = ctx.code,
                    !.is_admin = ctx.is_admin ]

\* a request to an endpoint that depends on get_auth_context
ResolveStrict(raw_key) ==
    /\ resp' = ResolverAnswer("strict", raw_key, get_auth_context(raw_key))
    /\ UNCHANGED << config_vars, jobs, ledger_vars, cache_vars, req >>

\* a request to an endpoint that depends on get_auth_context_optional
ResolveLenient(raw_key) ==
    /\ resp' = ResolverAnswer("lenient", raw_key, get_auth_context_optional(raw_key))
    /\ UNCHANGED << config_vars, jobs, ledger_vars, cache_vars, req >>

InitResolver ==
    /\ api_enable_auth \in BOOLEAN
    /\ api_admin_key \in {"admin", NULL}
    /\ api_allowed_keys \in AllowLists
    /\ InitBackend
    /\ task_owner = [t \in TaskIds |-> NULL]
    /\ user_tasks = [k \in UserLists |-> << >>]
    /\ all_tasks = << >>
    /\ InitApiIdle

NextResolver ==
    \/ \E k \in Credentials : ResolveStrict(k)
    \/ \E k \in Credentials : ResolveLenient(k)

SpecResolver == InitResolver /\ [][NextResolver]_vars

\* C6: when a non-empty allow-list is configured, a non-empty, non-admin credential that
\* is not in the allow-list is rejected with Forbidden by the identity resolver, for both
\* values of the global auth flag.
C6_UnlistedKeyForbiddenWhateverAuthFlag ==
    ( /\ resp.op \in {"strict", "lenient"}
      /\ api_allowed_keys # {}
      /\ Truthy(resp.key)
      /\ ~IsAdminKey(resp.key)
      /\ resp.key \notin api_allowed_keys )
    => resp.code = 403

\* C7 as stated: with no credential the lenient resolver returns an anonymous identity and
\* never an error, whatever the global auth flag; the strict resolver returns Unauthorized
\* for a missing credential exactly when global auth is enabled.
C7_LenientNeverRejectsMissingKey ==
    /\ (resp.op = "lenient" /\ ~Truthy(resp.key)) => (resp.code = 200 /\ ~resp.is_admin)
    /\ (resp.op = "strict" /\ ~Truthy(resp.key)) => (resp.code = 401 <=> api_enable_auth)

\* C7 amended: with no credential both resolvers return Unauthorized exactly when global
\* auth is enabled, and an anonymous (non-admin, keyless) identity when it is disabled.
C7_MissingKeyRejectedIffAuthEnabled ==
    (resp.op \in {"strict", "lenient"} /\ ~Truthy(resp.key)) =>
        /\ resp.code = (IF api_enable_auth THEN 401 ELSE 200)
        /\ ~resp.is_admin

\* the lenient resolver has answered a request without credential under global auth
C7_Witness ==
    /\ resp.op = "lenient"
    /\ resp.key = NULL
    /\ api_enable_auth
    /\ resp.code = 401

(***************************************************************************)
(* HTTP handlers (apps/api/routes/images.py; apps/api/main.py is the       *)
(* self-contained application with its own resolver and registration).     *)
(* A submission is a sequence of steps: the backend dispatch and then one  *)
(* step per cache command of register_task.                                *)
(***************************************************************************)
\* get_auth_context of apps/api/main.py: no whitelist
get_auth_context_main(raw_key) ==
    IF api_enable_auth /\ ~Truthy(raw_key)
    THEN HTTPException(401)
    ELSE AuthContext(raw_key, IsAdminKey(raw_key))

\* the status a submission is answered with before anything is dispatched: the resolver's
\* error, the handler's own 401, or 200 when the handler goes on to dispatch
SubmitCode(key, app) ==
    LET ctx == IF app = "routes" THEN get_auth_context(key) ELSE get_auth_context_main(key)
    IN  IF ctx.code # 200 THEN ctx.code
        ELSE IF api_enable_auth /\ ~Truthy(ctx.key) THEN 401
        ELSE 200

SubmitAnswer(key, t, code) ==
    [ NoResp EXCEPT !.op = "submit", !.key = key, !.task = t, !.code = code,
                    !.is_admin = IsAdminKey(key) ]

\* a handler that dispatches the job and only then raises the authorization error
SubmitRejectedAfterDispatch(key, app) ==
    /\ SubmitCode(key, app) # 200
    /\ NextTaskId \in TaskIds
    /\ jobs' = Delay(jobs, NextTaskId, key, NoInt, NoMeta)
    /\ resp' = SubmitAnswer(key, 0, SubmitCode(key, app))
    /\ UNCHANGED << config_vars, ledger_vars, cache_vars, req >>

\* enqueue_image_generation, rejected: the resolver or the handler raises 401 / 403
SubmitRejected(key, app) ==
    /\ SubmitCode(key, app) # 200
    /\ resp' = SubmitAnswer(key, 0, SubmitCode(key, app))
    /\ UNCHANGED << config_vars, jobs, ledger_vars, cache_vars, req >>

\* enqueue_image_generation, accepted: generate_image_task.delay(...); main.py registers
\* the job only for a non-empty key and otherwise returns at once
SubmitDelay(r, key, app, seed, md) ==
    /\ req[r].pc = "idle"
    /\ SubmitCode(key, app) = 200
    /\ NextTaskId \in TaskIds
    /\ app = "main" => md = NoMeta
    /\ jobs' = Delay(jobs, NextTaskId, key, seed, md)
    /\ IF app = "main" /\ ~Truthy(key)
       THEN /\ resp' = SubmitAnswer(key, NextTaskId, 200)
            /\ UNCHANGED req
       ELSE /\ req' = [req EXCEPT ![r] =
                        [pc |-> "setex", key |-> key, task |-> NextTaskId, app |-> app]]
            /\ UNCHANGED resp
    /\ UNCHANGED << config_vars, ledger_vars, cache_vars >>

\* register_task: redis_client.setex(task_owner:<id>, ttl, auth_key).  With auth_key None
\* the client library either refuses the value (DataError: the request ends in a 500 after
\* the dispatch) or stores its text "None", depending on its version.
RegSetex(r) ==
    /\ req[r].pc = "setex"
    /\ \/ /\ req[r].key # NULL
          /\ task_owner' = [task_owner EXCEPT ![req[r].task] = req[r].key]
          /\ req' = [req EXCEPT ![r].pc = "lpush_user"]
          /\ UNCHANGED resp
       \/ /\ req[r].key = NULL
          /\ task_owner' = [task_owner EXCEPT ![req[r].task] = "None"]
          /\ req' = [req EXCEPT ![r].pc = "lpush_user"]
          /\ UNCHANGED resp
       \/ /\ req[r].key = NULL
          /\ resp' = SubmitAnswer(req[r].key, req[r].task, 500)
          /\ req' = [req EXCEPT ![r] = NoReq]
          /\ UNCHANGED task_owner
    /\ UNCHANGED << config_vars, jobs, ledger_vars, user_tasks, all_tasks >>

\* redis_client.lpush(user_list_key, task_id)
RegLpushUser(r) ==
    /\ req[r].pc = "lpush_user"
    /\ user_tasks' = [user_tasks EXCEPT ![UserListKey(req[r].key)] = LPush(@, req[r].task)]
    /\ req' = [req EXCEPT ![r].pc = "ltrim_user"]
    /\ UNCHANGED << config_vars, jobs, ledger_vars, task_owner, all_tasks, resp >>

\* redis_client.ltrim(user_list_key, 0, USER_TASKS_MAX_ITEMS - 1)
RegLtrimUser(r) ==
    /\ req[r].pc = "ltrim_user"
    /\ user_tasks' = [user_tasks EXCEPT ![UserListKey(req[r].key)] =
                        LTrim(@, USER_TASKS_MAX_ITEMS - 1)]
    /\ req' = [req EXCEPT ![r].pc = "lpush_all"]
    /\ UNCHANGED << config_vars, jobs, ledger_vars, task_owner, all_tasks, resp >>

\* redis_client.lpush(ALL_TASKS_KEY, task_id)
RegLpushAll(r) ==
    /\ req[r].pc = "lpush_all"
    /\ all_tasks' = LPush(all_tasks, req[r].task)
    /\ req' = [req EXCEPT ![r].pc = "ltrim_all"]
    /\ UNCHANGED << config_vars, jobs, ledger_vars, task_owner, user_tasks, resp >>

\* redis_client.ltrim(ALL_TASKS_KEY, 0, USER_TASKS_MAX_ITEMS - 1), then the response
RegLtrimAll(r) ==
    /\ req[r].pc = "ltrim_all"
    /\ all_tasks' = LTrim(all_tasks, USER_TASKS_MAX_ITEMS - 1)
    /\ resp' = SubmitAnswer(req[r].key, req[r].task, 200)
    /\ req' = [req EXCEPT ![r] = NoReq]
    /\ UNCHANGED << config_vars, jobs, ledger_vars, task_owner, user_tasks >>

\* the ownership record's TTL (TASK_OWNER_TTL_SECONDS) runs out
Expire(t) ==
    /\ task_owner[t] # NULL
    /\ task_owner' = [task_owner EXCEPT ![t] = NULL]
    /\ UNCHANGED << config_vars, jobs, ledger_vars, user_tasks, all_tasks, req, resp >>

\* the job's ownership record was written and is gone again
OwnerExpired(t) ==
    /\ t \in Submitted
    /\ task_owner[t] = NULL
    /\ \A r \in 1..MaxReqs : ~(req[r].task = t /\ req[r].pc = "setex")

\* the status of a poll or cancel request: the resolver's error, else the enforcer's
AccessCode(key, t) ==
    LET ctx == get_auth_context(key)
    IN  IF ctx.code # 200 THEN ctx.code ELSE enforce_task_access(t, ctx)

\* the answer to a poll or cancel, with the ownership record and the backend state
\* the request met
AccessAnswer(op, key, t, status) ==
    [ NoResp EXCEPT !.op = op, !.key = key, !.task = t, !.code = AccessCode(key, t),
                    !.status = IF AccessCode(key, t) = 200 THEN status ELSE NULL,
                    !.is_admin = IsAdminKey(key), !.owner_seen = task_owner[t],
                    !.owner_expired = OwnerExpired(t), !.state_seen = jobs[t].state ]

\* a status handler that reads a revoked job's result as an error
PollBody_RevokedAsFailed(t) ==
    [ has_result |-> jobs[t].state = "SUCCESS" /\ jobs[t].result.kind = "result",
      has_error |-> jobs[t].state \in {"FAILURE", "REVOKED"},
      has_progress |-> jobs[t].state = "PROGRESS" ]

\* get_task_status: the optional fields of the TaskStatusResponse, filled by
\* result.successful() / result.failed() / status == "PROGRESS"
PollBody(t) ==
    [ has_result |-> jobs[t].state = "SUCCESS" /\ jobs[t].result.kind = "result",
      has_error |-> jobs[t].state = "FAILURE",
      has_progress |-> jobs[t].state = "PROGRESS" ]

\* the user-facing hint _classify_generation_exception returns with a code (for
\* dependency_missing the hint of ZImageNotAvailable)
HintOf(code) ==
    CASE code = "gpu_oom" -> "hint_gpu_oom"
      [] code = "dependency_missing" -> "hint_environment_dependency"
      [] code = "model_missing" -> "hint_model_missing"
      [] OTHER -> "hint_internal_error"

\* _serialize_generation_error: json.dumps of {"code", "message"} and, for a non-empty
\* detail, "detail".  A Python value is modelled by its type (py); a str by whether it
\* is a JSON text (is_json) and the document it then holds (json).
serialize_generation_error(code, hint, detail) ==
    [ py |-> "str", is_json |-> TRUE,
      json |-> IF detail = EMPTY
               THEN [ code |-> code, message |-> hint ]
               ELSE [ code |-> code, message |-> hint, detail |-> detail ] ]

\* str(exc) of an exception that is not the structured error
PlainText == [ py |-> "str", is_json |-> FALSE, json |-> << >> ]

\* raise RuntimeError(text): the JSON result backend stores the exception's type and
\* arguments, and AsyncResult.result of a failed job is the exception instance again
RuntimeError(text) == [ py |-> "exception", args |-> text ]

\* result.result of the failed job t
FailedResult(t) ==
    IF jobs[t].result.code = NULL
    THEN RuntimeError(PlainText)
    ELSE RuntimeError(serialize_generation_error(jobs[t].result.code,
                                                 HintOf(jobs[t].result.code), "detail"))

\* data.get(k)
DictGet(data, k) == IF k \in DOMAIN data THEN data[k] ELSE NULL

\* _decode_error_payload: (code, hint) of a str, bytes or dict payload; any other object
\* is returned as its text, without code and hint
decode_error_payload(raw) ==
    IF raw.py = "None" THEN [ code |-> NULL, hint |-> NULL ]
    ELSE IF raw.py \in {"str", "bytes"}
    THEN (IF raw.is_json
          THEN [ code |-> DictGet(raw.json, "code"), hint |-> DictGet(raw.json, "message") ]
          ELSE [ code |-> NULL, hint |-> NULL ])
    ELSE IF raw.py = "dict"
    THEN [ code |-> DictGet(raw.json, "code"), hint |-> DictGet(raw.json, "message") ]
    ELSE [ code |-> NULL, hint |-> NULL ]

\* get_task_status
Poll(key, t) ==
    LET failed == AccessCode(key, t) = 200 /\ PollBody(t).has_error
    IN
    /\ resp' = [ AccessAnswer("poll", key, t, jobs[t].state) EXCEPT
                    !.has_result = AccessCode(key, t) = 200 /\ PollBody(t).has_result,
                    !.has_error = AccessCode(key, t) = 200 /\ PollBody(t).has_error,
                    !.has_progress = AccessCode(key, t) = 200 /\ PollBody(t).has_progress,
                    !.error_code = IF failed THEN decode_error_payload(FailedResult(t)).code
                                   ELSE NULL,
                    !.error_hint = IF failed THEN decode_error_payload(FailedResult(t)).hint
                                   ELSE NULL ]
    /\ UNCHANGED << config_vars, jobs, ledger_vars, cache_vars, req >>

CeleryTerminal == {"SUCCESS", "FAILURE", "REVOKED"}

\* a cancel handler that revokes whatever the job's state
Cancel_NoTerminalCheck(key, t) ==
    /\ resp' = AccessAnswer("cancel", key, t, "CANCELLED")
    /\ jobs' = IF AccessCode(key, t) = 200 /\ t \in Submitted
               THEN [jobs EXCEPT ![t].state = "REVOKED", ![t].run = "revoked"]
               ELSE jobs
    /\ UNCHANGED << config_vars, ledger_vars, cache_vars, req >>

\* cancel_task: a terminal job is answered with its status; otherwise the job is revoked
\* (terminate=True: the worker process is killed and the backend marks the job REVOKED)
\* and the answer is CANCELLED
Cancel(key, t) ==
    /\ resp' = AccessAnswer("cancel", key, t,
                            IF jobs[t].state \in CeleryTerminal THEN jobs[t].state
                            ELSE "CANCELLED")
    /\ jobs' = IF /\ AccessCode(key, t) = 200
                  /\ jobs[t].state \notin CeleryTerminal
                  /\ t \in Submitted
               THEN [jobs EXCEPT ![t].state = "REVOKED", ![t].run = "revoked"]
               ELSE jobs
    /\ UNCHANGED << config_vars, ledger_vars, cache_vars, req >>

(***************************************************************************)
(* SpecSubmit: concurrent submissions against the Ownership Cache.  The    *)
(* history lists start empty or full (USER_TASKS_MAX_ITEMS entries of jobs *)
(* whose ownership records and results are gone).                          *)
(***************************************************************************)
\* the credentials of submitting clients
SubmitKeys == {NULL, "k1", "k3"}

\* the two applications' submit endpoints
Apps == {"routes", "main"}

\* a history list holding n entries of an old job
OldEntries(n) == [i \in 1..n |-> 0]

InitSubmit ==
    /\ api_enable_auth \in BOOLEAN
    /\ api_admin_key = "admin"
    /\ api_allowed_keys \in { {}, {"k1", "k2"} }
    /\ InitBackend
    /\ task_owner = [t \in TaskIds |-> NULL]
    /\ \E n \in {0, USER_TASKS_MAX_ITEMS} :
          /\ user_tasks = [k \in UserLists |-> OldEntries(n)]
          /\ all_tasks = OldEntries(n)
    /\ InitApiIdle

NextSubmit ==
    \/ \E key \in SubmitKeys, app \in Apps : SubmitRejected(key, app)
    \/ \E r \in 1..MaxReqs, key \in SubmitKeys, app \in Apps :
          SubmitDelay(r, key, app, NoInt, NoMeta)
    \/ \E r \in 1..MaxReqs : RegSetex(r)
    \/ \E r \in 1..MaxReqs : RegLpushUser(r)
    \/ \E r \in 1..MaxReqs : RegLtrimUser(r)
    \/ \E r \in 1..MaxReqs : RegLpushAll(r)
    \/ \E r \in 1..MaxReqs : RegLtrimAll(r)

SpecSubmit == InitSubmit /\ [][NextSubmit]_vars

\* C8: a submission that is rejected (Unauthorized or Forbidden) is rejected before
\* dispatch: no job is enqueued, no ownership record is written, no history index and no
\* ledger row changes.
C8_RejectedSubmissionChangesNothing ==
    [][ (resp' # resp /\ resp'.op = "submit" /\ resp'.code \in {401, 403})
            => UNCHANGED << jobs, task_owner, user_tasks, all_tasks, batches, tasks, req >> ]_vars

\* a submission by the unlisted key k3 has been rejected after another job was accepted
C8_Witness ==
    /\ resp.op = "submit"
    /\ resp.code = 403
    /\ resp.key = "k3"
    /\ Submitted # {}

\* C9: after every accepted submission, whatever the caller's credential, the returned
\* job id has an ownership record in the cache and is the head entry of both the caller's
\* history index and the global history index.
C9_AcceptedSubmissionIsRegistered ==
    [][ (resp' # resp /\ resp'.op = "submit" /\ resp'.code = 200)
            => /\ task_owner'[resp'.task] # NULL
               /\ Len(user_tasks'[UserListKey(resp'.key)]) > 0
               /\ Head(user_tasks'[UserListKey(resp'.key)]) = resp'.task
               /\ Len(all_tasks') > 0
               /\ Head(all_tasks') = resp'.task ]_vars

\* C10: in every reachable state, including the states between the cache commands of
\* concurrently executing submissions, each history index holds at most
\* USER_TASKS_MAX_ITEMS entries.
C10_HistoryIndicesBounded ==
    /\ Len(all_tasks) <= USER_TASKS_MAX_ITEMS
    /\ \A k \in UserLists : Len(user_tasks[k]) <= USER_TASKS_MAX_ITEMS

(***************************************************************************)
(* SpecAccess: submissions, the worker, the expiry of ownership records    *)
(* and poll / cancel requests.                                             *)
(***************************************************************************)
\* the credentials of polling and cancelling clients: none, the admin, the owner, a
\* stranger
AccessKeys == {NULL, "admin", "k1", "k3"}

\* the credentials of the access model's submitting clients
AccessSubmitKeys == {NULL, "k1"}

InitAccess ==
    /\ api_enable_auth \in BOOLEAN
    /\ api_admin_key = "admin"
    /\ api_allowed_keys = {}
    /\ InitBackend
    /\ task_owner = [t \in TaskIds |-> NULL]
    /\ user_tasks = [k \in UserLists |-> << >>]
    /\ all_tasks = << >>
    /\ InitApiIdle

NextAccess ==
    \/ \E key \in AccessSubmitKeys :
          NextTaskId <= MaxAccessTasks /\ SubmitDelay(1, key, "routes", NoInt, NoMeta)
    \/ RegSetex(1)
    \/ RegLpushUser(1)
    \/ RegLtrimUser(1)
    \/ RegLpushAll(1)
    \/ RegLtrimAll(1)
    \/ \E t \in TaskIds : WorkerStart(t)
    \/ \E t \in TaskIds : WorkerProgress(t)
    \/ \E t \in TaskIds : WorkerSucceed(t)
    \/ \E t \in TaskIds : WorkerFail(t, "gpu_oom")
    \/ \E t \in TaskIds : Expire(t)
    \/ \E key \in AccessKeys, t \in TaskIds : Poll(key, t)
    \/ \E key \in AccessKeys, t \in TaskIds : Cancel(key, t)

SpecAccess == InitAccess /\ [][NextAccess]_vars

\* C4: with global auth enabled and an ownership record job -> B present, a poll or
\* cancel by a non-admin caller with credential A # B is answered Forbidden; the same
\* request by B, or by the admin credential, is authorized.
C4_OwnerRecordDecidesAccess ==
    ( /\ resp.op \in {"poll", "cancel"}
      /\ api_enable_auth
      /\ resp.owner_seen # NULL
      /\ Truthy(resp.key) )
    => resp.code = ( IF IsAdminKey(resp.key) \/ resp.key = resp.owner_seen
                     THEN 200 ELSE 403 )

\* k3 has polled or cancelled a job whose ownership record names k1, and was refused
C4_Witness ==
    /\ resp.op \in {"poll", "cancel"}
    /\ api_enable_auth
    /\ resp.owner_seen = "k1"
    /\ resp.key = "k3"
    /\ resp.code = 403

\* C5: for a job submitted with credential B under global auth, after its ownership
\* record has expired from the cache, a non-admin caller with credential A # B is never
\* authorized to poll or cancel it, whatever the job's state.
C5_NoAccessAfterOwnerExpiry ==
    ( /\ resp.op \in {"poll", "cancel"}
      /\ api_enable_auth
      /\ resp.owner_expired
      /\ Truthy(jobs[resp.task].auth_key)
      /\ Truthy(resp.key)
      /\ ~IsAdminKey(resp.key)
      /\ resp.key # jobs[resp.task].auth_key )
    => resp.code # 200

(***************************************************************************)
(* SpecHistory: the history endpoints over the Durable Ledger, with the    *)
(* worker's notifications arriving at any time (at-least-once delivery).   *)
(***************************************************************************)
\* the api_client_id a history request is scoped to (NULL: no scope), after the resolver
HistoryScope(ctx, admin_sees_all) ==
    IF api_enable_auth
    THEN (IF ctx.is_admin THEN NULL ELSE ApiClientId(ctx.key))
    ELSE IF admin_sees_all \/ ~Truthy(ctx.key) THEN NULL ELSE ApiClientId(ctx.key)

\* the status of a history request: the resolver's error or the handler's own 401
HistoryCode(key) ==
    LET ctx == get_auth_context_optional(key)
    IN  IF ctx.code # 200 THEN ctx.code
        ELSE IF api_enable_auth /\ ~ctx.is_admin /\ ~Truthy(ctx.key) THEN 401
        ELSE 200

\* the batch rows the listing's SELECT returns for a scope (fewer rows than the default limit)
ListedBatches(scope) ==
    { b \in DOMAIN batches :
        batches[b].exists /\ (scope = NULL \/ batches[b].api_client_id = scope) }

\* list_history
ListHistory(key) ==
    /\ resp' = [ NoResp EXCEPT
                    !.op = "list", !.key = key, !.code = HistoryCode(key),
                    !.is_admin = IsAdminKey(key),
                    !.listed = IF HistoryCode(key) = 200
                               THEN ListedBatches(HistoryScope(get_auth_context_optional(key),
                                                               FALSE))
                               ELSE {} ]
    /\ UNCHANGED << config_vars, jobs, ledger_vars, cache_vars, req >>

\* the row the DELETE of soft_delete_history_item matches, if any
DeleteMatches(key, b) ==
    /\ HistoryCode(key) = 200
    /\ b \in ListedBatches(HistoryScope(get_auth_context_optional(key), TRUE))

\* a delete handler that also drops the ownership records of the batch's jobs
DeleteHistory_PurgesOwnership(key, b) ==
    /\ resp' = [ NoResp EXCEPT
                    !.op = "delete", !.key = key, !.task = b,
                    !.is_admin = IsAdminKey(key),
                    !.code = IF HistoryCode(key) # 200 THEN HistoryCode(key)
                             ELSE IF DeleteMatches(key, b) THEN 200 ELSE 404 ]
    /\ batches' = IF DeleteMatches(key, b) THEN [batches EXCEPT ![b] = NoBatch] ELSE batches
    /\ tasks' = tasks
    /\ task_owner' = IF DeleteMatches(key, b)
                     THEN [t \in TaskIds |->
                              IF tasks[t].exists /\ tasks[t].batch_id = b
                              THEN NULL ELSE task_owner[t]]
                     ELSE task_owner
    /\ UNCHANGED << config_vars, jobs, uuid_count, user_tasks, all_tasks, req >>

\* soft_delete_history_item: DELETE FROM image_generation_batches WHERE id = ... [AND
\* api_client_id = ...]; 404 when no row was deleted.  The batch's item rows go with it
\* or stay, as the schema's foreign key says.
DeleteHistory(key, b) ==
    /\ resp' = [ NoResp EXCEPT
                    !.op = "delete", !.key = key, !.task = b,
                    !.is_admin = IsAdminKey(key),
                    !.code = IF HistoryCode(key) # 200 THEN HistoryCode(key)
                             ELSE IF DeleteMatches(key, b) THEN 200 ELSE 404 ]
    /\ batches' = IF DeleteMatches(key, b) THEN [batches EXCEPT ![b] = NoBatch] ELSE batches
    /\ \E cascade \in BOOLEAN :
          tasks' = IF DeleteMatches(key, b) /\ cascade
                   THEN [t \in TaskIds |->
                            IF tasks[t].exists /\ tasks[t].batch_id = b
                            THEN NoTask ELSE tasks[t]]
                   ELSE tasks
    /\ UNCHANGED << config_vars, jobs, uuid_count, cache_vars, req >>

\* the credentials of the history endpoints' callers
HistoryKeys == {NULL, "admin", "k1", "k3"}

\* the metadata of the history model's jobs: none, or a named batch of one
HistoryMeta == { NoMeta, Meta(1, 0, 1) }

NextHistory ==
    \/ \E key \in LedgerKeys, md \in HistoryMeta :
          NextTaskId <= MaxHistoryTasks /\ DelayTask(key, NoInt, md)
    \/ \E t \in TaskIds : WorkerStart(t)
    \/ \E t \in TaskIds : WorkerSucceed(t)
    \/ \E t \in TaskIds : WorkerFail(t, "gpu_oom")
    \/ \E t \in TaskIds : Redeliver(t)
    \/ \E key \in HistoryKeys : ListHistory(key)
    \/ \E key \in HistoryKeys, b \in BatchIds : DeleteHistory(key, b)

SpecHistory == InitAccess /\ [][NextHistory]_vars

\* C12: after a batch has been deleted from history by an authorized caller, no later
\* history listing returns that batch, whatever worker notifications (started, succeeded,
\* failed, late or redelivered) arrive between the deletion and the listing.
C12_DeletedBatchNeverListed ==
    [][ ( /\ resp.op = "delete"
          /\ resp.code = 200
          /\ resp'.op = "list"
          /\ resp'.code = 200 )
        => resp.task \notin resp'.listed ]_vars

\* C13: a delete-history request for a batch that has an owner, by a caller who is neither
\* the admin nor that owner, returns an error and leaves the batch and its items
\* unchanged, for both values of the global auth flag and with or without a credential.
C13_ForeignDeleteRejected ==
    [][ \A b \in BatchIds :
          ( /\ resp' # resp
            /\ resp'.op = "delete"
            /\ resp'.task = b
            /\ batches[b].exists
            /\ batches[b].api_client_id # NULL
            /\ ~IsAdminKey(resp'.key)
            /\ ApiClientId(resp'.key) # batches[b].api_client_id )
          => ( resp'.code \notin {0, 200} /\ UNCHANGED << batches, tasks >> ) ]_vars

(***************************************************************************)
(* Claims about cancel and poll, checked under SpecAccess.                 *)
(***************************************************************************)
\* C17: when a member of a batch is cancelled through the cancel endpoint, its ledger
\* item becomes cancelled, it is counted in the batch's failed_count, and the batch is
\* terminal once every member has ended in the Execution Backend.
C17_CancelReachesLedger ==
    \A t \in TaskIds :
        (jobs[t].run = "revoked" /\ tasks[t].exists /\ batches[tasks[t].batch_id].exists) =>
            /\ tasks[t].status = "cancelled"
            /\ batches[tasks[t].batch_id].failed_count > 0
            /\ ( \A u \in TaskIds :
                    (tasks[u].exists /\ tasks[u].batch_id = tasks[t].batch_id)
                        => jobs[u].run \in {"finished", "revoked"} )
                  => batches[tasks[t].batch_id].status \in TerminalBatch

\* the caller of the answered request passes the access check
CallerAuthorized ==
    \/ ~api_enable_auth
    \/ resp.is_admin
    \/ (resp.owner_seen # NULL /\ resp.owner_seen = resp.key)

\* C18: a cancel request by an authorized caller for a job that is already terminal
\* (SUCCESS, FAILURE or REVOKED) is answered without error with the job's terminal
\* status, and sends no cancellation: the job's backend state stays what it was,
\* however often the request is repeated.
C18_CancelTerminalIsNoOp ==
    ( /\ resp.op = "cancel"
      /\ resp.state_seen \in CeleryTerminal
      /\ CallerAuthorized )
    => /\ resp.code = 200
       /\ resp.status = resp.state_seen
       /\ jobs[resp.task].state = resp.state_seen
       /\ jobs[resp.task].run = "revoked" => resp.state_seen = "REVOKED"

\* a cancel request for a succeeded job has been answered with SUCCESS
C18_Witness ==
    /\ resp.op = "cancel"
    /\ resp.code = 200
    /\ resp.state_seen = "SUCCESS"
    /\ resp.status = "SUCCESS"
    /\ jobs[resp.task].run = "finished"

\* C19: polling a job id that was never submitted to the Execution Backend is answered
\* NotFound (404).
C19_UnknownJobNotFound ==
    (resp.op = "poll" /\ resp.task \notin Submitted) => resp.code = 404

\* C20: every poll response has at most one of progress, result and error non-null, and
\* the one present matches the status: result only with SUCCESS, error only with
\* FAILURE, progress only with PROGRESS.
C20_PollBodyMatchesStatus ==
    (resp.op = "poll" /\ resp.code = 200) =>
        /\ ~(resp.has_result /\ resp.has_error)
        /\ ~(resp.has_result /\ resp.has_progress)
        /\ ~(resp.has_error /\ resp.has_progress)
        /\ resp.has_result => resp.status = "SUCCESS"
        /\ resp.has_error => resp.status = "FAILURE"
        /\ resp.has_progress => resp.status = "PROGRESS"

\* a running job has been polled and its progress returned
C20_Witness ==
    /\ resp.op = "poll"
    /\ resp.code = 200
    /\ resp.status = "PROGRESS"
    /\ resp.has_progress

(***************************************************************************)
(* SpecLedgerFault: the worker task when a ledger write does not go        *)
(* through.  _safe_execute (libs/py_core/db.py) swallows UndefinedTable    *)
(* and psycopg.OperationalError; every other error a statement raises      *)
(* (psycopg.DataError, IntegrityError, UndefinedColumn, ...) leaves the    *)
(* helper and reaches generate_image_task.                                 *)
(***************************************************************************)
\* what a ledger write meets: it goes through, fails with an error _safe_execute
\* swallows, or fails with any other error
LedgerFaults == {"none", "swallowed", "raised"}

\* the task ends with an exception that is not the structured error
RaisedUnclassified(t) ==
    [jobs EXCEPT ![t].run = "finished",
                 ![t].state = "FAILURE",
                 ![t].result = [kind |-> "error", auth_key |-> NULL, code |-> NULL]]

\* record_generation_started is called before the try block of the task
WorkerStartFault(t, fault) ==
    /\ jobs[t].run = "queued"
    /\ UsesUuid(jobs[t].metadata) => uuid_count < MaxUuid
    /\ IF fault = "none"
         THEN record_generation_started(t, jobs[t].auth_key, jobs[t].seed, jobs[t].metadata)
         ELSE UNCHANGED ledger_vars
    /\ jobs' = IF fault = "raised" THEN RaisedUnclassified(t)
                                   ELSE [jobs EXCEPT ![t].run = "executing"]
    /\ UNCHANGED << config_vars, cache_vars, req, resp >>

\* generate_image(...) returned an image
GenerateReturns(t) ==
    /\ jobs[t].run = "executing"
    /\ jobs' = [jobs EXCEPT ![t].run = "returned"]
    /\ UNCHANGED << config_vars, ledger_vars, cache_vars, req, resp >>

\* generate_image(...) raised and the except block classified the exception: code is
\* the local variable of the handler, the backend holds no result yet
GenerateRaises(t, code) ==
    /\ jobs[t].run = "executing"
    /\ jobs' = [jobs EXCEPT ![t].run = "raised",
                            ![t].result = [kind |-> "none", auth_key |-> NULL,
                                           code |-> code]]
    /\ UNCHANGED << config_vars, ledger_vars, cache_vars, req, resp >>

\* record_generation_succeeded(task_id, result); return result
FinishSucceeded(t, fault) ==
    /\ jobs[t].run = "returned"
    /\ IF fault = "none" THEN record_generation_succeeded(t) ELSE UNCHANGED ledger_vars
    /\ jobs' = IF fault = "raised"
                  THEN RaisedUnclassified(t)
                  ELSE [jobs EXCEPT ![t].run = "finished",
                                    ![t].state = "SUCCESS",
                                    ![t].result = [ kind |-> "result",
                                                    auth_key |-> jobs[t].auth_key,
                                                    code |-> NULL ]]
    /\ UNCHANGED << config_vars, cache_vars, req, resp >>

\* record_generation_failed(...) inside the except block, then
\* raise RuntimeError(_serialize_generation_error(code, hint, detail))
FinishFailed(t, fault) ==
    /\ jobs[t].run = "raised"
    /\ IF fault = "none" THEN record_generation_failed(t, jobs[t].result.code)
                         ELSE UNCHANGED ledger_vars
    /\ jobs' = IF fault = "raised"
                  THEN RaisedUnclassified(t)
                  ELSE [jobs EXCEPT ![t].run = "finished",
                                    ![t].state = "FAILURE",
                                    ![t].result = [ kind |-> "error", auth_key |-> NULL,
                                                    code |-> jobs[t].result.code ]]
    /\ UNCHANGED << config_vars, cache_vars, req, resp >>

NextLedgerFault ==
    \/ \E key \in LedgerKeys, seed \in SeedInputs, md \in HistoryMeta :
           DelayTask(key, seed, md)
    \/ \E t \in TaskIds, fault \in LedgerFaults : WorkerStartFault(t, fault)
    \/ \E t \in TaskIds : GenerateReturns(t)
    \/ \E t \in TaskIds, code \in ErrorCodes : GenerateRaises(t, code)
    \/ \E t \in TaskIds, fault \in LedgerFaults : FinishSucceeded(t, fault)
    \/ \E t \in TaskIds, fault \in LedgerFaults : FinishFailed(t, fault)

SpecLedgerFault == Init /\ [][NextLedgerFault]_vars

\* C22: a ledger failure during bookkeeping never changes the outcome the Execution
\* Backend reports: whatever the started write meets, the job goes on to compute; a
\* job whose compute step returned ends as SUCCESS and a job whose compute step raised
\* ends as FAILURE with its classified code, whatever the finish write meets.
C22_LedgerFaultKeepsOutcome ==
    [][ \A t \in TaskIds :
          /\ (jobs[t].run = "queued" /\ jobs'[t] # jobs[t])
                => jobs'[t].run = "executing"
          /\ (jobs[t].run = "returned" /\ jobs'[t] # jobs[t])
                => jobs'[t].state = "SUCCESS"
          /\ (jobs[t].run = "raised" /\ jobs'[t] # jobs[t])
                => (jobs'[t].state = "FAILURE"
                    /\ jobs'[t].result.code = jobs[t].result.code) ]_vars

(***************************************************************************)
(* SpecBatchOfFour: one client submits the four items of a batch with base *)
(* seed 100; the items run on the worker's pool processes and each         *)
(* finishes with success or with gpu_oom.                                  *)
(***************************************************************************)
\* the job ids of the four items, in submission order
FourItems == 1..4

\* the item of index i - 1: seed = base seed + index, metadata names the batch
SubmitBatchItem ==
    /\ NextTaskId \in FourItems
    /\ jobs' = Delay(jobs, NextTaskId, "k1", 100 + (NextTaskId - 1),
                     Meta(1, NextTaskId - 1, 4))
    /\ UNCHANGED << config_vars, ledger_vars, cache_vars, req, resp >>

InitBatchOfFour ==
    /\ api_enable_auth = FALSE
    /\ api_admin_key = "admin"
    /\ api_allowed_keys = {}
    /\ jobs = [t \in FourItems |-> NoJob]
    /\ batches = [b \in BatchIds |-> NoBatch]
    /\ tasks = [t \in FourItems |-> NoTask]
    /\ uuid_count = 0
    /\ task_owner = [t \in FourItems |-> NULL]
    /\ user_tasks = [k \in UserLists |-> << >>]
    /\ all_tasks = << >>
    /\ InitApiIdle

NextBatchOfFour ==
    \/ SubmitBatchItem
    \/ \E t \in FourItems : WorkerStart(t)
    \/ \E t \in FourItems : ItemSucceed(t)
    \/ \E t \in FourItems : ItemFail(t, "gpu_oom")
    \/ \E t \in FourItems : CountersRead(t)
    \/ \E t \in FourItems : CountersWrite(t)

SpecBatchOfFour == InitBatchOfFour /\ [][NextBatchOfFour]_vars

\* the four items have finished, three with success and one with a failure
ThreeSucceededOneFailed ==
    /\ \A t \in FourItems : jobs[t].run = "finished"
    /\ Cardinality({ t \in FourItems : jobs[t].state = "SUCCESS" }) = 3
    /\ Cardinality({ t \in FourItems : jobs[t].state = "FAILURE"
                                        /\ jobs[t].result.code = "gpu_oom" }) = 1

\* C23: a batch of 4 items with base seed 100 of which 3 succeed and 1 fails with
\* gpu_oom, in any order of the four completions, ends with status partial,
\* success_count = 3, failed_count = 1, base_seed = 100 and completed_at set.
C23_BatchOfFourEndsPartial ==
    ThreeSucceededOneFailed =>
        /\ batches[1].exists
        /\ batches[1].status = "partial"
        /\ batches[1].success_count = 3
        /\ batches[1].failed_count = 1
        /\ batches[1].base_seed = 100
        /\ batches[1].completed_at

(***************************************************************************)
(* History pages: GET /v1/history?limit=&offset= of apps/api/routes        *)
(* (batches of the ledger) and of apps/api/main.py (job ids of the cache). *)
(***************************************************************************)
Max(a, b) == IF a >= b THEN a ELSE b
Min(a, b) == IF a <= b THEN a ELSE b

\* limit = max(1, min(limit, 50))
ClampLimit(limit) == Max(1, Min(limit, 50))

\* offset = max(0, offset)
ClampOffset(offset) == Max(0, offset)

\* the rows of a set of batches, ORDER BY b.created_at DESC
RECURSIVE OrderByCreatedAtDesc(_)
OrderByCreatedAtDesc(rows) ==
    IF rows = {} THEN << >>
    ELSE LET first == CHOOSE b \in rows :
                         \A c \in rows : batches[c].created_at <= batches[b].created_at
         IN  << first >> \o OrderByCreatedAtDesc(rows \ {first})

\* LIMIT l OFFSET o: o rows are skipped, then at most l rows are returned
LimitOffset(rows, l, o) ==
    [ i \in 1..Min(l, Max(Len(rows) - o, 0)) |-> rows[o + i] ]

\* an LRANGE whose end index is exclusive
LRange_EndExclusive(list, start, end) ==
    LET last == Min(end - 1, Len(list) - 1)
    IN  IF start > last THEN << >>
        ELSE [ i \in 1..(last - start + 1) |-> list[start + i] ]

\* redis_client.lrange(key, start, end): the elements at the indices start..end, counted
\* from 0, both ends included, an end past the list's tail is cut
LRange(list, start, end) ==
    LET last == Min(end, Len(list) - 1)
    IN  IF start > last THEN << >>
        ELSE [ i \in 1..(last - start + 1) |-> list[start + i] ]

Range(seq) == { seq[i] : i \in 1..Len(seq) }

\* the rows list_history selects for a caller before LIMIT / OFFSET apply
RoutesHistory(key) ==
    OrderByCreatedAtDesc(ListedBatches(HistoryScope(get_auth_context_optional(key), FALSE)))

\* list_history of apps/api/routes/images.py with its query parameters
ListHistoryPage(key, limit, offset) ==
    LET rows == IF HistoryCode(key) = 200
                THEN LimitOffset(RoutesHistory(key), ClampLimit(limit), ClampOffset(offset))
                ELSE << >>
    IN  /\ resp' = [ NoResp EXCEPT
                        !.op = "list", !.key = key, !.code = HistoryCode(key),
                        !.is_admin = IsAdminKey(key), !.limit = limit, !.offset = offset,
                        !.page = rows, !.listed = Range(rows) ]
        /\ UNCHANGED << config_vars, jobs, ledger_vars, cache_vars, req >>

\* the Redis list list_history of apps/api/main.py reads: the global index for the
\* admin, the caller's own index for a key, and nothing for a caller without a key
MainHistory(key) ==
    LET ctx == get_auth_context_main(key)
    IN  IF ctx.code # 200 THEN << >>
        ELSE IF ctx.is_admin THEN all_tasks
        ELSE IF ~Truthy(ctx.key) THEN << >>
        ELSE user_tasks[UserListKey(ctx.key)]

\* list_history of apps/api/main.py
ListHistoryMain(key, limit, offset) ==
    LET code == get_auth_context_main(key).code
        start == ClampOffset(offset)
        end == ClampOffset(offset) + ClampLimit(limit) - 1
        ids == IF code = 200 THEN LRange(MainHistory(key), start, end) ELSE << >>
    IN  /\ resp' = [ NoResp EXCEPT
                        !.op = "list_main", !.key = key, !.code = code,
                        !.is_admin = IsAdminKey(key), !.limit = limit, !.offset = offset,
                        !.page = ids, !.listed = Range(ids) ]
        /\ UNCHANGED << config_vars, jobs, ledger_vars, cache_vars, req >>

(***************************************************************************)
(* SpecPage: pages of a history that holds up to MaxHistoryLen finished    *)
(* jobs, submitted in turn by the keys k1 and k3.                          *)
(***************************************************************************)
\* the key that submitted job t
PageOwner(t) == IF t % 2 = 1 THEN "k1" ELSE "k3"

\* the ids 1..n, the most recent first
Recent(n) == [ i \in 1..n |-> n + 1 - i ]

\* the entries of a list that the key submitted
OwnedBy(list, key) == LET own(t) == PageOwner(t) = key IN SelectSeq(list, own)

InitPage ==
    /\ api_enable_auth = TRUE
    /\ api_admin_key = "admin"
    /\ api_allowed_keys = {}
    /\ \E n \in {0, 3, MaxHistoryLen} :
          /\ jobs = [ t \in 1..MaxHistoryLen |->
                        IF t > n THEN NoJob
                        ELSE [ NoJob EXCEPT
                                 !.state = "SUCCESS", !.run = "finished", !.deliveries = 1,
                                 !.auth_key = PageOwner(t),
                                 !.result = [ kind |-> "result", auth_key |-> PageOwner(t),
                                              code |-> NULL ] ] ]
          /\ tasks = [ t \in 1..MaxHistoryLen |->
                        IF t > n THEN NoTask
                        ELSE [ NoTask EXCEPT
                                 !.exists = TRUE, !.batch_id = t, !.status = "success",
                                 !.image_id = "img", !.finished_at = TRUE ] ]
          /\ batches = [ b \in 1..MaxHistoryLen |->
                        IF b > n THEN NoBatch
                        ELSE [ NoBatch EXCEPT
                                 !.exists = TRUE, !.api_client_id = ApiClientId(PageOwner(b)),
                                 !.batch_size = 1, !.status = "success",
                                 !.success_count = 1, !.completed_at = TRUE,
                                 !.created_at = b ] ]
          /\ uuid_count = n
          /\ task_owner = [ t \in 1..MaxHistoryLen |-> IF t > n THEN NULL ELSE PageOwner(t) ]
          /\ all_tasks = Recent(n)
          /\ user_tasks = [ k \in UserLists |->
                              IF k \in {"k1", "k3"} THEN OwnedBy(Recent(n), k)
                              ELSE << >> ]
    /\ InitApiIdle

NextPage ==
    \/ \E key \in {"k1", "admin"}, limit \in {-1, 0, 1, 2, 20, 50, 51},
          offset \in {-1, 0, 1, 20, 40, 44} :
           ListHistoryPage(key, limit, offset)
    \/ \E key \in {"k1", "admin"}, limit \in {-1, 0, 1, 2, 20, 50, 51},
          offset \in {-1, 0, 1, 20, 40, 44} :
           ListHistoryMain(key, limit, offset)

SpecPage == InitPage /\ [][NextPage]_vars

\* the caller's scoped history, the most recent entry first
ScopedHistory(op, key) == IF op = "list" THEN RoutesHistory(key) ELSE MainHistory(key)

\* the entries of history at the 0-based positions [o, o + l)
IsWindow(page, history, o, l) ==
    /\ Len(page) = Cardinality({ q \in 0..(Len(history) - 1) : o <= q /\ q < o + l })
    /\ \A i \in 1..Len(page) : page[i] = history[o + i]

BatchDetail(key, b) ==
    LET found == b \in ListedBatches(HistoryScope(get_auth_context_optional(key), FALSE))
    IN  /\ resp' = [ NoResp EXCEPT
                        !.op = "detail", !.key = key, !.task = b,
                        !.is_admin = IsAdminKey(key),
                        !.code = IF HistoryCode(key) # 200 THEN HistoryCode(key)
                                 ELSE IF found THEN 200 ELSE 404,
                        !.listed = IF HistoryCode(key) = 200 /\ found THEN {b} ELSE {} ]
        /\ UNCHANGED << config_vars, jobs, ledger_vars, cache_vars, req >>

NextScope ==
    \/ \E key \in AccessSubmitKeys, app \in Apps, md \in HistoryMeta :
           NextTaskId <= MaxHistoryTasks /\ SubmitDelay(1, key, app, NoInt, md)
    \/ RegSetex(1)
    \/ RegLpushUser(1)
    \/ RegLtrimUser(1)
    \/ RegLpushAll(1)
    \/ RegLtrimAll(1)
    \/ \E t \in TaskIds : WorkerStart(t)
    \/ \E t \in TaskIds : WorkerSucceed(t)
    \/ \E t \in TaskIds : WorkerFail(t, "gpu_oom")
    \/ \E t \in TaskIds : Expire(t)
    \/ \E key \in HistoryKeys : ListHistoryPage(key, 20, 0)
    \/ \E key \in HistoryKeys : ListHistoryMain(key, 20, 0)
    \/ \E key \in HistoryKeys, b \in BatchIds : BatchDetail(key, b)
    \/ \E key \in HistoryKeys, b \in BatchIds : DeleteHistory(key, b)

SpecScope == InitAccess /\ [][NextScope]_vars

\* the batches of the ledger, and those a key owns
ExistingBatches == { b \in DOMAIN batches : batches[b].exists }
OwnBatches(key) == { b \in ExistingBatches : batches[b].api_client_id = ApiClientId(key) }

\* no registration is in flight
AllIdle == \A r \in 1..MaxReqs : req[r].pc = "idle"

\* C24: with global auth enabled, the history list and the batch detail return to a
\* keyed non-admin caller only that caller's own batches (entries) and to the admin
\* every batch; with global auth disabled a caller without credential gets every batch.
C24_HistoryScopedToCaller ==
    [][ (resp' # resp /\ resp'.code \in {200, 404})
        => LET key == resp'.key
               own == api_enable_auth /\ Truthy(key) /\ ~resp'.is_admin
               every == \/ api_enable_auth /\ resp'.is_admin
                        \/ ~api_enable_auth /\ key = NULL
           IN  /\ (resp'.op = "list" /\ resp'.code = 200)
                     => /\ own => resp'.listed = OwnBatches(key)
                        /\ every => resp'.listed = ExistingBatches
               /\ resp'.op = "detail"
                     => /\ own => (resp'.code = 200 <=> resp'.task \in OwnBatches(key))
                        /\ every => (resp'.code = 200 <=> resp'.task \in ExistingBatches)
               /\ (resp'.op = "list_main" /\ resp'.code = 200)
                     => /\ own => \A t \in resp'.listed : jobs[t].auth_key = key
                        /\ every => resp'.listed = Range(all_tasks) ]_vars

\* C25: a job submitted without credential while auth is disabled appears in the global
\* history list as seen by an anonymous or admin caller, and in the history list of no
\* keyed non-admin caller.
C25_AnonymousJobOnlyInGlobalHistory ==
    [][ ( /\ resp' # resp /\ resp'.code = 200 /\ AllIdle
          /\ resp'.op \in {"list", "list_main"} )
        => \A t \in Submitted :
              LET global == resp'.key = NULL \/ resp'.is_admin
                  entry == IF resp'.op = "list" THEN tasks[t].batch_id ELSE t
                  recorded == IF resp'.op = "list"
                              THEN tasks[t].exists /\ batches[tasks[t].batch_id].exists
                              ELSE TRUE
              IN  (jobs[t].auth_key = NULL /\ recorded)
                     => /\ global => entry \in resp'.listed
                        /\ ~global => entry \notin resp'.listed ]_vars

\* C28: deleting a history item changes only ledger rows: the ownership records, the
\* cached history indices and the backend's job states and results stay as they are,
\* so every job is polled with the same answer as before the delete.
C28_DeleteChangesOnlyLedger ==
    [][ (resp'.op = "delete" /\ resp' # resp)
        => /\ UNCHANGED << jobs, task_owner, user_tasks, all_tasks >>
           /\ \A key \in HistoryKeys, t \in TaskIds :
                 /\ AccessCode(key, t)' = AccessCode(key, t)
                 /\ PollBody(t)' = PollBody(t) ]_vars

\* the batch of a registered, finished job has been deleted from the history
C28_Witness ==
    /\ resp.op = "delete"
    /\ resp.code = 200
    /\ resp.task = 1
    /\ ~batches[1].exists
    /\ \E t \in TaskIds :
          /\ jobs[t].metadata = Meta(1, 0, 1)
          /\ jobs[t].state = "SUCCESS"
          /\ task_owner[t] # NULL
          /\ all_tasks # << >>

(***************************************************************************)
(* SpecOwner: two clients with different keys submit the items of the same *)
(* named batch; registrations, worker notifications (redelivered too), TTL *)
(* expiry and the admin's history delete interleave.                       *)
(***************************************************************************)
OwnerKeys == {"k1", "k3"}

NextOwner ==
    \/ \E key \in OwnerKeys, md \in BatchItemMeta : SubmitDelay(1, key, "routes", NoInt, md)
    \/ RegSetex(1)
    \/ RegLpushUser(1)
    \/ RegLtrimUser(1)
    \/ RegLpushAll(1)
    \/ RegLtrimAll(1)
    \/ \E t \in TaskIds : WorkerStart(t)
    \/ \E t \in TaskIds : WorkerSucceed(t)
    \/ \E t \in TaskIds : Redeliver(t)
    \/ \E t \in TaskIds : Expire(t)
    \/ \E b \in NamedBatchIds : DeleteHistory("admin", b)

SpecOwner == InitAccess /\ [][NextOwner]_vars

\* C27: once an owner is recorded for a job id in the ownership cache, or for a batch
\* in the ledger, no later submission or worker notification changes it to a different
\* owner: the record stays as it is, or disappears through TTL expiry (cache) or an
\* explicit history delete (ledger).
C27_RecordedOwnerNeverChanges ==
    [][ /\ \A t \in TaskIds :
              task_owner[t] # NULL
                 => \/ task_owner'[t] = task_owner[t]
                    \/ /\ task_owner'[t] = NULL
                       /\ UNCHANGED << jobs, ledger_vars, user_tasks, all_tasks, req, resp >>
        /\ \A b \in BatchIds :
              (batches[b].exists /\ batches[b].api_client_id # NULL)
                 => \/ /\ batches'[b].exists
                       /\ batches'[b].api_client_id = batches[b].api_client_id
                    \/ /\ ~batches'[b].exists
                       /\ resp'.op = "delete" /\ resp'.code = 200 /\ resp'.task = b ]_vars

\* the jobs of two different keys have both been started in batch 1, which has an owner,
\* and both jobs have an ownership record
C27_Witness ==
    \E t \in TaskIds, u \in TaskIds :
        /\ jobs[t].auth_key = "k1" /\ jobs[u].auth_key = "k3"
        /\ tasks[t].exists /\ tasks[t].batch_id = 1
        /\ tasks[u].exists /\ tasks[u].batch_id = 1
        /\ batches[1].exists /\ batches[1].api_client_id # NULL
        /\ task_owner[t] = "k1" /\ task_owner[u] = "k3"

\* C29: for a job that failed with a classified error of code c and hint h, the poll
\* response carries error_code = c and error_hint = h: the worker's serialization and
\* the API's decoding are inverse on the (code, hint) pair.
C29_PollCarriesCodeAndHint ==
    ( /\ resp.op = "poll" /\ resp.code = 200 /\ resp.has_error
      /\ jobs[resp.task].result.code # NULL )
    => /\ resp.error_code = jobs[resp.task].result.code
       /\ resp.error_hint = HintOf(jobs[resp.task].result.code)

(***************************************************************************)
(* SpecClassify: generate_image fails and the except block of the task     *)
(* classifies the exception.                                               *)
(***************************************************************************)
\* what generate_image raises: the failure's cause, the exception's class and the
\* substrings of its lowered message the classifier looks for.  A missing weights
\* directory or configuration is reported by libs/py_core/z_image_pipeline.py as
\* ZImageNotAvailable ("the weights directory was not found at ..."), a missing
\* import too; torch reports a CUDA fault as RuntimeError("CUDA error: ...").
PipelineFailures ==
    { [ cause |-> "out_of_memory", cls |-> "RuntimeError", text |-> {"out of memory"} ],
      [ cause |-> "out_of_memory", cls |-> "RuntimeError",
        text |-> {"cuda error", "out of memory"} ],
      [ cause |-> "other", cls |-> "RuntimeError", text |-> {"cuda error"} ],
      [ cause |-> "dependency", cls |-> "ZImageNotAvailable", text |-> {} ],
      [ cause |-> "dependency", cls |-> "ModuleNotFoundError", text |-> {} ],
      [ cause |-> "model_file", cls |-> "ZImageNotAvailable", text |-> {} ],
      [ cause |-> "model_file", cls |-> "FileNotFoundError", text |-> {} ],
      [ cause |-> "other", cls |-> "ValueError", text |-> {} ] }

\* _classify_generation_exception: the code of the first rule that matches
classify_generation_exception(exc) ==
    IF "out of memory" \in exc.text \/ "cuda error" \in exc.text THEN "gpu_oom"
    ELSE IF exc.cls = "ZImageNotAvailable" THEN "dependency_missing"
    ELSE IF exc.cls = "ModuleNotFoundError" THEN "dependency_missing"
    ELSE IF exc.cls = "FileNotFoundError" THEN "model_missing"
    ELSE "internal_error"

\* except Exception as exc: the task has caught what generate_image raised
GenerateRaisesException(t, exc) ==
    /\ jobs[t].run = "executing"
    /\ jobs' = [jobs EXCEPT ![t].run = "caught",
                            ![t].result = [kind |-> "none", auth_key |-> NULL,
                                           code |-> NULL, exc |-> exc]]
    /\ UNCHANGED << config_vars, ledger_vars, cache_vars, req, resp >>

\* code, hint = _classify_generation_exception(exc); record_generation_failed(...);
\* raise RuntimeError(_serialize_generation_error(code, hint, detail))
ClassifyAndRaise(t) ==
    /\ jobs[t].run = "caught"
    /\ record_generation_failed(t, classify_generation_exception(jobs[t].result.exc))
    /\ jobs' = [jobs EXCEPT
                  ![t].run = "finished",
                  ![t].state = "FAILURE",
                  ![t].result = [ kind |-> "error", auth_key |-> NULL,
                                  code |-> classify_generation_exception(
                                               jobs[t].result.exc) ]]
    /\ UNCHANGED << config_vars, cache_vars, req, resp >>

NextClassify ==
    \/ \E key \in LedgerKeys : DelayTask(key, NoInt, NoMeta)
    \/ \E t \in TaskIds : WorkerStart(t)
    \/ \E t \in TaskIds, exc \in PipelineFailures : GenerateRaisesException(t, exc)
    \/ \E t \in TaskIds : ClassifyAndRaise(t)

SpecClassify == Init /\ [][NextClassify]_vars

\* C30: the classification of a failure yields exactly one of gpu_oom,
\* dependency_missing, model_missing and internal_error: a failure caused by running out
\* of memory yields gpu_oom, by a missing dependency dependency_missing, by a missing
\* model file model_missing, and every other failure internal_error.
C30_ClassificationByCause ==
    [][ \A t \in TaskIds :
          (jobs[t].run = "caught" /\ jobs'[t].run = "finished")
             => /\ jobs'[t].result.code
                      \in {"gpu_oom", "dependency_missing", "model_missing", "internal_error"}
                /\ jobs'[t].result.code =
                      ( CASE jobs[t].result.exc.cause = "out_of_memory" -> "gpu_oom"
                          [] jobs[t].result.exc.cause = "dependency" -> "dependency_missing"
                          [] jobs[t].result.exc.cause = "model_file" -> "model_missing"
                          [] OTHER -> "internal_error" ) ]_vars

\* C31: the answer to a poll or cancel equals the reference decision procedure, in
\* this order: global auth disabled -> authorized; admin -> authorized; empty credential
\* -> Unauthorized; ownership record present -> authorized if it equals the credential,
\* else Forbidden; record absent and job succeeded -> Forbidden if the result payload's
\* owner is non-empty and differs from the credential, else authorized.
C31_EnforceFollowsReference ==
    resp.op \in {"poll", "cancel"}
    => ( IF ~api_enable_auth THEN resp.code = 200
         ELSE IF resp.is_admin THEN resp.code = 200
         ELSE IF ~Truthy(resp.key) THEN resp.code = 401
         ELSE IF resp.owner_seen # NULL
              THEN resp.code = (IF resp.owner_seen = resp.key THEN 200 ELSE 403)
         ELSE IF resp.state_seen = "SUCCESS"
              THEN resp.code =
                     (IF /\ Truthy(jobs[resp.task].result.auth_key)
                         /\ jobs[resp.task].result.auth_key # resp.key
                      THEN 403 ELSE 200)
         ELSE TRUE )

\* a stranger was refused a succeeded job whose ownership record had expired
C31_Witness ==
    /\ resp.op \in {"poll", "cancel"}
    /\ api_enable_auth
    /\ resp.key = "k3"
    /\ resp.owner_seen = NULL
    /\ resp.owner_expired
    /\ resp.state_seen = "SUCCESS"
    /\ resp.code = 403

\* C32: for every credential that is present the strict and the lenient resolver return
\* the same outcome: role admin exactly when the configured admin secret is non-empty
\* and equals the credential, the admin credential is never rejected by the allow-list,
\* and a non-admin credential is rejected with Forbidden exactly when a non-empty
\* allow-list does not contain it.
C32_ResolversAgreeOnPresentCredential ==
    (resp.op \in {"strict", "lenient"} /\ Truthy(resp.key))
    => /\ get_auth_context(resp.key) = get_auth_context_optional(resp.key)
       /\ resp.code \in {200, 403}
       /\ resp.code = 200
             => (resp.is_admin <=> (Truthy(api_admin_key) /\ resp.key = api_admin_key))
       /\ (Truthy(api_admin_key) /\ resp.key = api_admin_key) => resp.code = 200
       /\ ~(Truthy(api_admin_key) /\ resp.key = api_admin_key)
             => (resp.code = 403
                   <=> (api_allowed_keys # {} /\ resp.key \notin api_allowed_keys))

(***************************************************************************)
(* SpecProgress: the progress callback of a running job, called after each *)
(* of its num_inference_steps steps.                                       *)
(***************************************************************************)
\* the pairs (k, n), 1 <= k <= n <= 50, whose IEEE-754 double (k / n) * 100 lies below
\* the integer 100 * k / n it stands for: (29 / 50) * 100 = 57.99999999999999
DoubleBelowInteger == { << 29, 50 >> }

\* progress_callback: int(((step + 1) / num_inference_steps) * 100), step counted from 0;
\* int() cuts the fraction off
progress_callback(step, num_inference_steps) ==
    LET k == step + 1
        n == num_inference_steps
    IN  IF << k, n >> \in DoubleBelowInteger
        THEN ((100 * k) \div n) - 1
        ELSE (100 * k) \div n

\* a job running with n steps; step and progress are the callback's last arguments and
\* the meta it stored with update_state
RunningJob(n) ==
    [ NoJob EXCEPT !.run = "executing", !.deliveries = 1, !.auth_key = "k1" ]
      @@ [ steps |-> n, step |-> -1, progress |-> 0 ]

InitProgress ==
    /\ api_enable_auth = FALSE
    /\ api_admin_key = "admin"
    /\ api_allowed_keys = {}
    /\ \E n \in 1..MaxInferenceSteps : jobs = [t \in {1} |-> RunningJob(n)]
    /\ batches = [b \in BatchIds |-> NoBatch]
    /\ tasks = [t \in TaskIds |-> NoTask]
    /\ uuid_count = 0
    /\ task_owner = [t \in TaskIds |-> NULL]
    /\ user_tasks = [k \in UserLists |-> << >>]
    /\ all_tasks = << >>
    /\ InitApiIdle

\* the pipeline has completed one more step and calls the callback
ProgressCallback(t) ==
    /\ jobs[t].run = "executing"
    /\ jobs[t].step + 1 < jobs[t].steps
    /\ jobs' = [jobs EXCEPT ![t].step = @ + 1,
                            ![t].state = "PROGRESS",
                            ![t].progress = progress_callback(jobs[t].step + 1,
                                                              jobs[t].steps)]
    /\ UNCHANGED << config_vars, ledger_vars, cache_vars, req, resp >>

NextProgress == \E t \in {1} : ProgressCallback(t)

SpecProgress == InitProgress /\ [][NextProgress]_vars

\* round(k / n * 100): the nearest integer, a tie going to the even one
RoundPercent(k, n) ==
    LET q == (200 * k) \div n
        below == (q - 1) \div 2
    IN  IF (200 * k) % n = 0 /\ q % 2 = 1
        THEN (IF below % 2 = 0 THEN below ELSE below + 1)
        ELSE (q + 1) \div 2

\* C33: the progress value emitted after completing step k of n steps (1 <= k <= n,
\* 1 <= n <= 50) equals round(k / n * 100); it is an integer in 0..100, non-decreasing
\* in k, and equals 100 at k = n.
C33_ProgressIsRoundedPercent ==
    /\ [] ( jobs[1].state = "PROGRESS"
             => /\ jobs[1].progress = RoundPercent(jobs[1].step + 1, jobs[1].steps)
                /\ jobs[1].progress \in 0..100
                /\ jobs[1].step + 1 = jobs[1].steps => jobs[1].progress = 100 )
    /\ [][ jobs'[1].progress >= jobs[1].progress ]_vars

(***************************************************************************)
(* Claims about terminal batches, checked under Spec.                      *)
(***************************************************************************)
\* C34: once a batch's status is terminal (success or partial), no later worker
\* notification (a redelivered start followed by a finish, or a member added later
\* under the same batch_id) sets it back to running, and completed_at is non-null
\* exactly while the status is terminal.
C34_TerminalBatchStaysTerminal ==
    /\ [][ \A b \in BatchIds :
              (batches[b].exists /\ batches[b].status \in TerminalBatch)
                  => batches'[b].status # "running" ]_vars
    /\ [](\A b \in BatchIds :
              batches[b].exists
                  => (batches[b].completed_at <=> batches[b].status \in TerminalBatch))

(***************************************************************************)
(* Claims about a batch id named by two credentials, checked under         *)
(* SpecOwner.                                                              *)
(***************************************************************************)
\* get_history_batch_detail: SELECT ... FROM image_generation_tasks WHERE batch_id = %s
DetailItems(ts, b) == { t \in DOMAIN ts : ts[t].exists /\ ts[t].batch_id = b }

\* C35: what owner A sees of their own batch depends only on A's submissions: a worker
\* notification for a job submitted with a different credential B, whose metadata names
\* A's batch_id, changes nothing in A's batch row and adds no item to A's batch detail.
C35_ForeignSubmissionLeavesBatchAlone ==
    [][ \A b \in BatchIds, t \in TaskIds :
            ( /\ batches[b].exists
              /\ batches[b].api_client_id # NULL
              /\ Truthy(jobs[t].auth_key)
              /\ ApiClientId(jobs[t].auth_key) # batches[b].api_client_id
              /\ jobs'[t] # jobs[t]
              /\ tasks'[t] # tasks[t] )
                => /\ batches'[b] = batches[b]
                   /\ DetailItems(tasks', b) = DetailItems(tasks, b) ]_vars

(***************************************************************************)
(* Claims about the registration window, checked under SpecAccess.         *)
(***************************************************************************)
\* C36: under global auth, between a job's acceptance by the backend and the writing
\* of its ownership record, no poll or cancel by a non-admin caller other than the
\* submitter is authorized for that job.
C36_NoForeignAccessBeforeRegistration ==
    [][ ( /\ resp' # resp
          /\ resp'.op \in {"poll", "cancel"}
          /\ api_enable_auth
          /\ Truthy(resp'.key)
          /\ ~resp'.is_admin
          /\ \E r \in 1..MaxReqs :
                 /\ req[r].pc = "setex"
                 /\ req[r].task = resp'.task
                 /\ req[r].key # resp'.key )
        => resp'.code # 200 ]_vars

(***************************************************************************)
(* Claims about re-applied start notifications, checked under Spec.        *)
(***************************************************************************)
\* C37: re-applying 'started' for the same job id creates no additional batch row,
\* also for a job submitted without batch_id: a start notification for a job that has
\* an item row adds no batch row and updates the batch of that item row, and in every
\* reachable state every batch row has at least one item row.
C37_RestartCreatesNoBatchRow ==
    /\ [][ \A t \in TaskIds :
              (tasks[t].exists /\ jobs[t].run = "queued" /\ jobs'[t].run = "executing")
                  => /\ \A b \in BatchIds : batches'[b].exists => batches[b].exists
                     /\ \A b \in BatchIds :
                            batches'[b] # batches[b] => tasks'[t].batch_id = b ]_vars
    /\ [](\A b \in BatchIds : batches[b].exists => DetailItems(tasks, b) # {})

(***************************************************************************)
(* Claims about the listed status of a batch, checked under SpecHistory.   *)
(***************************************************************************)
\* list_history: the TaskSummary status derived from the batch row's status
CoarseStatus(status) ==
    IF status \in {"success", "partial"} THEN "SUCCESS"
    ELSE IF status \in {"error", "cancelled"} THEN "FAILURE"
    ELSE IF status \in {"pending", "running"} THEN "PENDING"
    ELSE status

\* C38: a batch in which no item succeeded (every member failed or was cancelled) is
\* never listed in history with the coarse status SUCCESS, and every listed coarse
\* status is one of PENDING, SUCCESS, FAILURE.
C38_FailedBatchNotListedAsSuccess ==
    [][ ( /\ resp' # resp
          /\ resp'.op = "list"
          /\ resp'.code = 200 )
        => \A b \in resp'.listed :
              /\ CoarseStatus(batches[b].status) \in {"PENDING", "SUCCESS", "FAILURE"}
              /\ ( /\ DetailItems(tasks, b) # {}
                    /\ \A t \in DetailItems(tasks, b) :
                           tasks[t].status \in {"error", "cancelled"} )
                  => CoarseStatus(batches[b].status) # "SUCCESS" ]_vars

(***************************************************************************)
(* Claims about a ledger that comes back, checked under SpecLedgerFault.   *)
(***************************************************************************)
\* C39: if the ledger write of a job's 'started' notification was swallowed (the job
\* has no item row when its compute step ends) and the ledger is available when the
\* job finishes (the finish write goes through), the finished job is recorded in the
\* ledger with its terminal status and its batch appears in the owner's history.
C39_FinishRecordedAfterSwallowedStart ==
    [][ \A t \in TaskIds :
            ( /\ ~tasks[t].exists
              /\ FinishSucceeded(t, "none") \/ FinishFailed(t, "none") )
                => /\ tasks'[t].exists
                   /\ tasks'[t].status = (IF jobs'[t].state = "SUCCESS" THEN "success"
                                                                        ELSE "error")
                   /\ \E b \in BatchIds :
                          /\ tasks'[t].batch_id = b
                          /\ batches'[b].exists
                          /\ batches'[b].api_client_id = ApiClientId(jobs[t].auth_key) ]_vars

====
